---------------------------- MODULE Spec2Model ----------------------------
(***************************************************************************)
(* Chatterbox-Turbo TTS server (src/python/tts_server.py): a Flask app     *)
(* served with threaded=True.  The globals model and device, the audio     *)
(* cache directory and every handler's position are the state; each step   *)
(* of a handler that reads or writes shared state is one action.           *)
(***************************************************************************)
EXTENDS Integers, Sequences, FiniteSets, TLC

(***************************************************************************)
(* Bounds of the model.                                                    *)
(***************************************************************************)
\* request threads of the threaded server that can be in flight at once
NumThreads == 2
\* longest text, in characters, drawn over the whole alphabet (PathSpec)
MaxTextLen == 3
\* samples of a generated waveform (the last dimension of its shape)
NumSamples == 4

(***************************************************************************)
(* Program constants.                                                      *)
(***************************************************************************)
\* safe_name[:50]
MaxNameLen == 50
\* if len(safe_name) < 2
MinNameLen == 2
\* hexdigest()[:12]
HashLen == 12
\* hashlib.md5(...).hexdigest() is 32 hex characters
Md5HexLen == 32

None == "None"

(***************************************************************************)
(* Strings are sequences of one-character strings.  The alphabet holds a   *)
(* lower-case letter, an upper-case letter, a digit, the space, a          *)
(* whitespace character that is not the space, and punctuation.            *)
(***************************************************************************)
Alphabet == {"h", "H", "i", "7", " ", "\t", "!", "?"}

Min(a, b) == IF a < b THEN a ELSE b

\* c.isalnum()
isalnum(c) == c \in {"h", "H", "i", "7"}

\* the characters str.strip() removes
isspace(c) == c \in {" ", "\t"}

\* str.lower(), one character
lowerChar(c) == IF c = "H" THEN "h" ELSE c

\* text.lower()
lower(s) == [k \in 1..Len(s) |-> lowerChar(s[k])]

RECURSIVE lstrip(_)
lstrip(s) == IF s # <<>> /\ isspace(Head(s)) THEN lstrip(Tail(s)) ELSE s

RECURSIVE rstrip(_)
rstrip(s) ==
    IF s # <<>> /\ isspace(s[Len(s)]) THEN rstrip(SubSeq(s, 1, Len(s) - 1)) ELSE s

\* str.strip()
strip(s) == rstrip(lstrip(s))

\* ''.join(c if c.isalnum() or c == ' ' else '' for c in clean_text)
RECURSIVE joinKept(_)
joinKept(s) ==
    IF s = <<>> THEN <<>>
    ELSE (IF isalnum(Head(s)) \/ Head(s) = " " THEN <<Head(s)>> ELSE <<>>)
         \o joinKept(Tail(s))

\* safe_name.replace(' ', '_')
replaceSpaces(s) == [k \in 1..Len(s) |-> IF s[k] = " " THEN "_" ELSE s[k]]

\* s[:n]
slice(s, n) == SubSeq(s, 1, Min(n, Len(s)))

(***************************************************************************)
(* A file name stem is a string value: either literal characters, or hex   *)
(* characters of an MD5 digest.  hashlib.md5(b).hexdigest() is not         *)
(* computed: the digest is kept as the term naming the hashed bytes and    *)
(* the number of hex characters kept, so two digests are equal exactly     *)
(* when the hashed strings and the kept lengths are.                       *)
(***************************************************************************)
literal(s) == [digest |-> FALSE, of |-> s, len |-> Len(s)]

\* hashlib.md5(bytes).hexdigest()
md5hexdigest(bytes) == [digest |-> TRUE, of |-> bytes, len |-> Md5HexLen]

\* hexdigest()[:n]
hexslice(d, n) == [d EXCEPT !.len = Min(n, d.len)]

\* AUDIO_CACHE_DIR / f"{safe_name}.wav"
wavPath(safe_name) == [dir |-> "AUDIO_CACHE_DIR", stem |-> safe_name, ext |-> "wav"]

\* get_audio_cache_path hashing the text as received instead of clean_text
get_audio_cache_path_raw_hash(text) ==
    LET clean_text == strip(lower(text))
        safe_name  == slice(replaceSpaces(joinKept(clean_text)), MaxNameLen)
    IN  IF Len(safe_name) < MinNameLen
        THEN wavPath(hexslice(md5hexdigest(text), HashLen))
        ELSE wavPath(literal(safe_name))

\* get_audio_cache_path without lower(): names that keep the case of the text
get_audio_cache_path_case_sensitive(text) ==
    LET clean_text == strip(text)
        safe_name  == slice(replaceSpaces(joinKept(clean_text)), MaxNameLen)
    IN  IF Len(safe_name) < MinNameLen
        THEN wavPath(hexslice(md5hexdigest(clean_text), HashLen))
        ELSE wavPath(literal(safe_name))

get_audio_cache_path(text) ==
    LET clean_text == strip(lower(text))
        safe_name  == slice(replaceSpaces(joinKept(clean_text)), MaxNameLen)
    IN  IF Len(safe_name) < MinNameLen
        THEN wavPath(hexslice(md5hexdigest(clean_text), HashLen))
        ELSE wavPath(literal(safe_name))

(***************************************************************************)
(* Requests.  A /speak body is what request.get_json() yields: no JSON     *)
(* body, a JSON value that is no object, or an object whose text key is    *)
(* missing, null or a string.                                              *)
(***************************************************************************)
Req(route, json, key, text) == [route |-> route, json |-> json, key |-> key, text |-> text]

NoRequest == Req("none", "absent", "missing", <<>>)

SpeakText(T) == Req("/speak", "object", "str", T)

SpeakRequests(texts) ==
    {Req("/speak", "absent", "missing", <<>>),
     Req("/speak", "array", "missing", <<>>),
     Req("/speak", "object", "missing", <<>>),
     Req("/speak", "object", "null", <<>>)}
    \cup {SpeakText(T) : T \in texts}

\* the texts clients send in Spec: the empty string and two texts of one cache path
Texts == {<<>>, <<"h", "i">>, <<"H", "i", "!">>}

\* every text of at most n characters
TextsUpTo(n) == UNION {[1..k -> Alphabet] : k \in 0..n}

\* texts whose sanitized form reaches the 50-character cut: a run of letters
\* between a short head and a short tail
RECURSIVE run(_, _)
run(c, n) == IF n = 0 THEN <<>> ELSE <<c>> \o run(c, n - 1)

LongTexts ==
    {head \o run("h", n) \o tail :
        n \in {MaxNameLen - 1, MaxNameLen}, head \in TextsUpTo(1), tail \in TextsUpTo(1)}

PathTexts == TextsUpTo(MaxTextLen) \cup LongTexts

(***************************************************************************)
(* The state.                                                              *)
(***************************************************************************)
Main == 0
Threads == 1..NumThreads
Procs == {Main} \cup Threads

VARIABLES
    argv_preload,   \* '--preload' in sys.argv
    torch,          \* what torch reports: [cuda, mps]
    alive,          \* the process: "starting", "serving", "stopping", "exited"
    model,          \* global model: None or the instance
    device,         \* global device: None or a device name
    cache,          \* the files of AUDIO_CACHE_DIR: path -> file
    pc,             \* each thread's position
    request,        \* the request a thread is serving
    cache_path,     \* speak's local cache_path
    tts,            \* speak's local tts
    wav,            \* speak's local wav
    resp,           \* the response the handler returned
    calls,          \* history: the calls the request made, in order
    instances,      \* history: the instances from_pretrained returned
    called          \* history: whether a /speak or /preload was received

env == <<argv_preload, torch>>
globals == <<model, device, cache>>
locals == <<cache_path, tts, wav>>
vars == <<argv_preload, torch, alive, model, device, cache, pc, request,
          cache_path, tts, wav, resp, calls, instances, called>>

NoPath == wavPath(literal(<<>>))
NoWav == [text |-> <<>>, by |-> -2, shape |-> <<>>]
\* the content of a file that was in the cache directory before the process started
OldWav == [text |-> <<>>, by |-> -1, shape |-> <<1, NumSamples>>]
NoResp == [status |-> 0]

File(state, audio) == [state |-> state, audio |-> audio]

\* a lookup that never finds the file
exists_never(files, path) == FALSE

\* Path.exists()
exists(files, path) == path \in DOMAIN files

\* the file system after a write of `file` at `path`
write(files, path, file) ==
    [p \in DOMAIN files \cup {path} |-> IF p = path THEN file ELSE files[p]]

\* get_device()
get_device == IF torch.cuda THEN "cuda" ELSE IF torch.mps THEN "mps" ELSE "cpu"

\* data.get('text', '') of an object
TextOf(rq) == IF rq.key = "str" THEN rq.text ELSE <<>>

\* a check for a missing text only (text is None), which lets '' through
NoText_none_only(rq) == rq.key # "str"

\* `not text`: the key is missing (default ''), null, or the empty string
NoText(rq) == rq.key # "str" \/ rq.text = <<>>

jsonify(status, body) == [status |-> status, body |-> body]

Running == alive \in {"serving", "stopping"}

\* the hardware a run can find: CUDA, MPS without CUDA, or neither
TorchStates ==
    {[cuda |-> TRUE, mps |-> FALSE],
     [cuda |-> FALSE, mps |-> TRUE],
     [cuda |-> FALSE, mps |-> FALSE]}

\* the cache directories a run can start with: empty, or holding a file for "hi"
InitCaches ==
    {<<>>} \cup
    {[p \in {get_audio_cache_path(<<"h", "i">>)} |-> File("complete", OldWav)]}

Init ==
    /\ argv_preload \in BOOLEAN
    /\ torch \in TorchStates
    /\ alive = "starting"
    /\ model = None
    /\ device = None
    /\ cache \in InitCaches
    /\ pc = [p \in Procs |-> IF p = Main THEN "start" ELSE "idle"]
    /\ request = [p \in Procs |-> NoRequest]
    /\ cache_path = [p \in Procs |-> NoPath]
    /\ tts = [p \in Procs |-> None]
    /\ wav = [p \in Procs |-> NoWav]
    /\ resp = [p \in Procs |-> NoResp]
    /\ calls = [p \in Procs |-> <<>>]
    /\ instances = {}
    /\ called = FALSE

(***************************************************************************)
(* A handler that returns: the response is kept until it is delivered.     *)
(***************************************************************************)
Return(t, r) ==
    /\ resp' = [resp EXCEPT ![t] = r]
    /\ pc' = [pc EXCEPT ![t] = "done"]

Called(t, name) == calls' = [calls EXCEPT ![t] = Append(@, name)]

\* the process exits at thread t's step, which leaves t at `at`: every other
\* thread dies where it is, and a request it was serving is never answered
ProcessExits(t, at) ==
    /\ alive' = "exited"
    /\ pc' = [u \in Procs |->
                IF u = t THEN at
                ELSE IF pc[u] \in {"idle", "serve_forever"} THEN pc[u] ELSE "killed"]
    /\ cache_path' = [u \in Procs |-> NoPath]
    /\ tts' = [u \in Procs |-> None]
    /\ wav' = [u \in Procs |-> NoWav]
    /\ calls' = [u \in Procs |-> <<>>]
    /\ resp' = [u \in Procs |-> NoResp]

\* the instance ChatterboxTurboTTS.from_pretrained builds on thread t
Instance(t) == "ChatterboxTurboTTS#" \o ToString(t)

(***************************************************************************)
(* __main__: with --preload the main thread calls load_model() and then    *)
(* app.run(); without it app.run() at once.                                *)
(***************************************************************************)
MainStart ==
    /\ alive = "starting" /\ pc[Main] = "start"
    /\ pc' = [pc EXCEPT ![Main] = IF argv_preload THEN "load_model" ELSE "run"]
    /\ UNCHANGED <<env, alive, globals, request, locals, resp, calls, instances, called>>

AppRun ==
    /\ alive = "starting" /\ pc[Main] = "run"
    /\ alive' = "serving"
    /\ pc' = [pc EXCEPT ![Main] = "serve_forever"]
    /\ UNCHANGED <<env, globals, request, locals, resp, calls, instances, called>>

(***************************************************************************)
(* load_model(), called by speak, preload and __main__.                    *)
(***************************************************************************)
InLoad(t) == IF t = Main THEN alive = "starting" ELSE Running

\* where load_model's caller goes on when it returns
AfterLoad(t) ==
    IF t = Main THEN "run"
    ELSE IF request[t].route = "/speak" THEN "generate" ELSE "preload_return"

\* load_model without its `if model is not None` return: every call loads
LoadCheck_always_loads(t) ==
    /\ InLoad(t) /\ pc[t] = "load_model"
    /\ Called(t, "load_model")
    /\ pc' = [pc EXCEPT ![t] = "get_device"]
    /\ UNCHANGED <<env, alive, globals, request, locals, resp, instances, called>>

\* if model is not None: return model
LoadCheck(t) ==
    /\ InLoad(t) /\ pc[t] = "load_model"
    /\ Called(t, "load_model")
    /\ IF model # None
       THEN /\ tts' = [tts EXCEPT ![t] = model]
            /\ pc' = [pc EXCEPT ![t] = AfterLoad(t)]
       ELSE /\ pc' = [pc EXCEPT ![t] = "get_device"]
            /\ UNCHANGED tts
    /\ UNCHANGED <<env, alive, globals, request, cache_path, wav, resp, instances, called>>

\* load_model without its device = get_device(): the global device stays unset
LoadSetDevice_skipped(t) ==
    /\ InLoad(t) /\ pc[t] = "get_device"
    /\ pc' = [pc EXCEPT ![t] = "from_pretrained"]
    /\ UNCHANGED <<env, alive, globals, request, locals, resp, calls, instances, called>>

\* device = get_device()
LoadSetDevice(t) ==
    /\ InLoad(t) /\ pc[t] = "get_device"
    /\ device' = get_device
    /\ pc' = [pc EXCEPT ![t] = "from_pretrained"]
    /\ UNCHANGED <<env, alive, model, cache, request, locals, resp, calls, instances, called>>

\* load_model without `global model`: the instance is returned and not kept
FromPretrained_not_global(t) ==
    /\ InLoad(t) /\ pc[t] = "from_pretrained"
    /\ Called(t, "from_pretrained")
    /\ instances' = instances \cup {Instance(t)}
    /\ tts' = [tts EXCEPT ![t] = Instance(t)]
    /\ pc' = [pc EXCEPT ![t] = AfterLoad(t)]
    /\ UNCHANGED <<env, alive, globals, request, cache_path, wav, resp, called>>

\* model = ChatterboxTurboTTS.from_pretrained(device=device); return model
FromPretrained(t) ==
    /\ InLoad(t) /\ pc[t] = "from_pretrained"
    /\ Called(t, "from_pretrained")
    /\ model' = Instance(t)
    /\ instances' = instances \cup {Instance(t)}
    /\ tts' = [tts EXCEPT ![t] = Instance(t)]
    /\ pc' = [pc EXCEPT ![t] = AfterLoad(t)]
    /\ UNCHANGED <<env, alive, device, cache, request, cache_path, wav, resp, called>>

\* a load failure that every caller survives: __main__ goes on to app.run()
FromPretrainedRaises_caught(t) ==
    /\ InLoad(t) /\ pc[t] = "from_pretrained"
    /\ IF t = Main
       THEN /\ pc' = [pc EXCEPT ![t] = "run"]
            /\ UNCHANGED resp
       ELSE Return(t, jsonify(500, [error |-> "load failed"]))
    /\ UNCHANGED <<env, alive, globals, request, locals, calls, instances, called>>

\* the import or from_pretrained raises: load_model re-raises.  speak and preload
\* answer 500; in __main__ nothing catches it and the process exits
FromPretrainedRaises(t) ==
    /\ InLoad(t) /\ pc[t] = "from_pretrained"
    /\ IF t = Main
       THEN ProcessExits(t, "raised")
       ELSE /\ Return(t, jsonify(500, [error |-> "load failed"]))
            /\ UNCHANGED <<alive, locals, calls>>
    /\ UNCHANGED <<env, globals, request, instances, called>>

(***************************************************************************)
(* POST /speak.                                                            *)
(***************************************************************************)
Serving(t) == Running /\ pc[Main] = "serve_forever" /\ pc[t] = "idle"

\* lines 96-100: request.get_json() and data.get('text', '') raise unless the body
\* is a JSON object (no JSON body: get_json raises or returns None, and None.get
\* raises; null or an array: .get raises); `not text` gives the 400
speak_validate(rq) ==
    IF rq.json # "object" THEN "raise"
    ELSE IF NoText(rq) THEN "no_text"
    ELSE "text"

SpeakReceive(t, rq) ==
    /\ Serving(t)
    /\ request' = [request EXCEPT ![t] = rq]
    /\ called' = TRUE
    /\ CASE speak_validate(rq) = "raise" ->
              /\ Return(t, jsonify(500, [error |-> "bad request body"]))
              /\ UNCHANGED cache_path
         [] speak_validate(rq) = "no_text" ->
              /\ Return(t, jsonify(400, [error |-> "No text provided"]))
              /\ UNCHANGED cache_path
         [] OTHER ->
              /\ cache_path' = [cache_path EXCEPT ![t] = get_audio_cache_path(TextOf(rq))]
              /\ pc' = [pc EXCEPT ![t] = "exists"]
              /\ UNCHANGED resp
    /\ UNCHANGED <<env, alive, globals, tts, wav, calls, instances>>

\* if cache_path.exists()
SpeakExists(t) ==
    /\ Running /\ pc[t] = "exists"
    /\ pc' = [pc EXCEPT ![t] =
                IF exists(cache, cache_path[t]) THEN "cache_hit" ELSE "load_model"]
    /\ UNCHANGED <<env, alive, globals, request, locals, resp, calls, instances, called>>

\* send_file(str(cache_path), mimetype='audio/wav'): the response carries what the
\* file at the path holds when it is read
send_file(files, path) ==
    IF exists(files, path)
    THEN jsonify(200, [audio |-> files[path]])
    ELSE jsonify(500, [error |-> "file not found"])

SpeakSendFile(t) ==
    /\ Running /\ pc[t] \in {"cache_hit", "cached"}
    /\ Return(t, send_file(cache, cache_path[t]))
    /\ UNCHANGED <<env, alive, globals, request, locals, calls, instances, called>>

\* a tensor: the audio of the synthesis of `text` made on thread `by`, and its shape
Tensor(text, by, shape) == [text |-> text, by |-> by, shape |-> shape]

\* the shapes tts.generate can return: (samples), (1, samples), and tensors of more
\* than two dimensions with a leading dimension of 1 or of 2
GenerateShapes ==
    {<<NumSamples>>, <<1, NumSamples>>, <<1, 1, NumSamples>>, <<2, 1, NumSamples>>}

\* wav.dim()
dim(w) == Len(w.shape)

\* wav.squeeze(0): removes dimension 0 when its size is 1, and nothing otherwise
squeeze(w) == IF w.shape[1] = 1 THEN [w EXCEPT !.shape = Tail(@)] ELSE w

\* wav.unsqueeze(0)
unsqueeze(w) == [w EXCEPT !.shape = <<1>> \o @]

\* a synthesis that is tried twice
Generate_twice(t) ==
    /\ Running /\ pc[t] = "generate"
    /\ calls' = [calls EXCEPT ![t] = @ \o <<"generate", "generate">>]
    /\ \E shape \in GenerateShapes :
           wav' = [wav EXCEPT ![t] = Tensor(TextOf(request[t]), t, shape)]
    /\ pc' = [pc EXCEPT ![t] = "flatten"]
    /\ UNCHANGED <<env, alive, globals, request, cache_path, tts, resp, instances, called>>

\* wav = tts.generate(text): the audio of one synthesis of this text
Generate(t) ==
    /\ Running /\ pc[t] = "generate"
    /\ Called(t, "generate")
    /\ \E shape \in GenerateShapes :
           wav' = [wav EXCEPT ![t] = Tensor(TextOf(request[t]), t, shape)]
    /\ pc' = [pc EXCEPT ![t] = "flatten"]
    /\ UNCHANGED <<env, alive, globals, request, cache_path, tts, resp, instances, called>>

\* a failing synthesis that leaves an empty file at the cache path
GenerateRaises_leaves_file(t) ==
    /\ Running /\ pc[t] = "generate"
    /\ Called(t, "generate")
    /\ cache' = write(cache, cache_path[t], File("partial", NoWav))
    /\ Return(t, jsonify(500, [error |-> "generate failed"]))
    /\ UNCHANGED <<env, alive, model, device, request, locals, instances, called>>

\* tts.generate(text) raises: speak's except answers 500 with the error
GenerateRaises(t) ==
    /\ Running /\ pc[t] = "generate"
    /\ Called(t, "generate")
    /\ Return(t, jsonify(500, [error |-> "generate failed"]))
    /\ UNCHANGED <<env, alive, globals, request, locals, instances, called>>

\* while wav.dim() > 2: wav = wav.squeeze(0) -- one turn of the loop.  With a
\* leading dimension that is not 1 the turn changes nothing and the loop goes on
FlattenLoop(t) ==
    /\ Running /\ pc[t] = "flatten"
    /\ dim(wav[t]) > 2
    /\ wav' = [wav EXCEPT ![t] = squeeze(@)]
    /\ UNCHANGED <<env, alive, globals, pc, request, cache_path, tts, resp, calls,
                   instances, called>>

\* the loop ends; if wav.dim() == 1: wav = wav.unsqueeze(0)
FlattenEnd(t) ==
    /\ Running /\ pc[t] = "flatten"
    /\ dim(wav[t]) <= 2
    /\ wav' = [wav EXCEPT ![t] = IF dim(@) = 1 THEN unsqueeze(@) ELSE @]
    /\ pc' = [pc EXCEPT ![t] = "save"]
    /\ UNCHANGED <<env, alive, globals, request, cache_path, tts, resp, calls,
                   instances, called>>

\* another request opened the file at t's path since t opened it, or is writing it
Overlapped(t) ==
    \/ cache[cache_path[t]] # File("partial", wav[t])
    \/ \E u \in Threads \ {t} : pc[u] = "saving" /\ cache_path[u] = cache_path[t]

\* torchaudio.save(str(cache_path), wav.cpu(), 24000, format='wav') opens the file
\* for writing, which creates or truncates it ...
SaveOpen(t) ==
    /\ Running /\ pc[t] = "save"
    /\ Called(t, "save")
    /\ cache' = write(cache, cache_path[t], File("partial", wav[t]))
    /\ pc' = [pc EXCEPT ![t] = "saving"]
    /\ UNCHANGED <<env, alive, model, device, request, locals, resp, instances, called>>

\* ... and writes the samples and closes it.  Nothing makes the write exclusive:
\* when another writer had the same file open meanwhile, each wrote at its own
\* offsets, and the file holds this writer's audio or bytes of both ("mixed")
SaveClose(t) ==
    /\ Running /\ pc[t] = "saving"
    /\ \E state \in (IF Overlapped(t) THEN {"complete", "mixed"} ELSE {"complete"}) :
           cache' = write(cache, cache_path[t], File(state, wav[t]))
    /\ pc' = [pc EXCEPT ![t] = "cached"]
    /\ UNCHANGED <<env, alive, model, device, request, locals, resp, calls, instances, called>>

\* the write raises (disk full): what was written stays
SaveRaises(t) ==
    /\ Running /\ pc[t] = "saving"
    /\ Return(t, jsonify(500, [error |-> "save failed"]))
    /\ UNCHANGED <<env, alive, globals, request, locals, calls, instances, called>>

(***************************************************************************)
(* POST /preload, GET /health, POST /shutdown.                             *)
(***************************************************************************)
PreloadReceive(t) ==
    /\ Serving(t)
    /\ request' = [request EXCEPT ![t] = Req("/preload", "absent", "missing", <<>>)]
    /\ called' = TRUE
    /\ pc' = [pc EXCEPT ![t] = "load_model"]
    /\ UNCHANGED <<env, alive, globals, locals, resp, calls, instances>>

\* return jsonify({'status': 'ok', 'device': device})
PreloadReturn(t) ==
    /\ Running /\ pc[t] = "preload_return"
    /\ Return(t, jsonify(200, [status |-> "ok", device |-> device]))
    /\ UNCHANGED <<env, alive, globals, request, locals, calls, instances, called>>

\* the dict health() returns.  device or get_device() is get_device() in every
\* state (load_model stores nothing else in device), so reading model and device
\* in one step loses no outcome
health_body ==
    [status |-> "ok",
     model_loaded |-> model # None,
     device |-> IF device # None THEN device ELSE get_device,
     cache_dir |-> "CACHE_DIR"]

\* a health() that keeps the device it detected in the global
Health_keeps_device(t) ==
    /\ Serving(t)
    /\ request' = [request EXCEPT ![t] = Req("/health", "absent", "missing", <<>>)]
    /\ Return(t, jsonify(200, health_body))
    /\ device' = get_device
    /\ UNCHANGED <<env, alive, model, cache, locals, calls, instances, called>>

Health(t) ==
    /\ Serving(t)
    /\ request' = [request EXCEPT ![t] = Req("/health", "absent", "missing", <<>>)]
    /\ Return(t, jsonify(200, health_body))
    /\ UNCHANGED <<env, alive, globals, locals, calls, instances, called>>

\* func = request.environ.get('werkzeug.server.shutdown'): has_func tells whether
\* the request's environ holds it.  Without it os._exit(0) ends the process inside
\* the handler; with it func() asks the server to stop and the handler returns
Shutdown(t, has_func) ==
    /\ Serving(t)
    /\ request' = [request EXCEPT ![t] = Req("/shutdown", "absent", "missing", <<>>)]
    /\ IF has_func
       THEN /\ alive' = "stopping"
            /\ Return(t, jsonify(200, [status |-> "shutting down"]))
            /\ UNCHANGED <<locals, calls>>
       ELSE ProcessExits(t, "os._exit")
    /\ UNCHANGED <<env, globals, instances, called>>

\* the response is written to the client and the thread is free again
Deliver(t) ==
    /\ Running /\ pc[t] = "done" /\ request[t].route # "/shutdown"
    /\ pc' = [pc EXCEPT ![t] = "idle"]
    /\ request' = [request EXCEPT ![t] = NoRequest]
    /\ cache_path' = [cache_path EXCEPT ![t] = NoPath]
    /\ tts' = [tts EXCEPT ![t] = None]
    /\ wav' = [wav EXCEPT ![t] = NoWav]
    /\ resp' = [resp EXCEPT ![t] = NoResp]
    /\ calls' = [calls EXCEPT ![t] = <<>>]
    /\ UNCHANGED <<env, alive, globals, instances, called>>

\* the shutdown response is written; the server that func() asked to stop then
\* leaves serve_forever, app.run returns and the process ends
DeliverShutdown(t) ==
    /\ alive = "stopping" /\ pc[t] = "done" /\ request[t].route = "/shutdown"
    /\ ProcessExits(t, "answered")
    /\ UNCHANGED <<env, globals, request, instances, called>>

(***************************************************************************)
(* The service: handlers of concurrent requests interleave step by step.   *)
(***************************************************************************)
Step(t) ==
    \/ LoadCheck(t)
    \/ LoadSetDevice(t)
    \/ FromPretrained(t)
    \/ FromPretrainedRaises(t)
    \/ \E rq \in SpeakRequests(Texts) : SpeakReceive(t, rq)
    \/ SpeakExists(t)
    \/ SpeakSendFile(t)
    \/ Generate(t)
    \/ GenerateRaises(t)
    \/ FlattenLoop(t)
    \/ FlattenEnd(t)
    \/ SaveOpen(t)
    \/ SaveClose(t)
    \/ SaveRaises(t)
    \/ PreloadReceive(t)
    \/ PreloadReturn(t)
    \/ Health(t)
    \/ \E has_func \in BOOLEAN : Shutdown(t, has_func)
    \/ Deliver(t)
    \/ DeliverShutdown(t)

Next ==
    \/ MainStart
    \/ AppRun
    \/ \E t \in Procs : Step(t)

Spec == Init /\ [][Next]_vars

(***************************************************************************)
(* The same service with its requests served one at a time: a thread takes *)
(* a step only while no other request is being handled (the other threads  *)
(* are idle or hold a response that is ready).                             *)
(***************************************************************************)
Quiet(t) == \A u \in Threads \ {t} : pc[u] \in {"idle", "done"}

SeqNext ==
    \/ MainStart
    \/ AppRun
    \/ \E t \in Procs : Quiet(t) /\ Step(t)

SeqSpec == Init /\ [][SeqNext]_vars

(***************************************************************************)
(* The path resolver alone: a started server receives one /speak whose     *)
(* text is any text of PathTexts, which resolves its cache path.           *)
(***************************************************************************)
PathRequests == {SpeakText(T) : T \in PathTexts}

PathNext ==
    \/ MainStart
    \/ AppRun
    \/ \E rq \in PathRequests : SpeakReceive(1, rq)

PathSpec == Init /\ [][PathNext]_vars

(***************************************************************************)
(* Properties.                                                             *)
(***************************************************************************)
SpeakDone(t) == pc[t] = "done" /\ request[t].route = "/speak"

\* the thread took a step of its own that did not end the process
Stepped(t) == pc'[t] # pc[t] /\ alive' # "exited"

Count(seq, x) == Cardinality({k \in 1..Len(seq) : seq[k] = x})

(***************************************************************************)
(* C6.  The sanitized name of the claim, written from its words: T         *)
(* lowercased and trimmed, only alphanumeric characters and spaces kept,   *)
(* spaces replaced by underscores, cut to the first 50 characters.         *)
(***************************************************************************)
C6_Normalized(T) ==
    LET low  == [k \in 1..Len(T) |-> IF T[k] = "H" THEN "h" ELSE T[k]]
        ink  == {k \in 1..Len(T) : low[k] \notin {" ", "\t"}}
        from == CHOOSE k \in ink : \A j \in ink : k <= j
        to   == CHOOSE k \in ink : \A j \in ink : k >= j
    IN  IF ink = {} THEN <<>> ELSE SubSeq(low, from, to)

C6_AlnumOrSpace(c) == c \in {"h", "H", "i", "7", " "}

C6_Sanitized(T) ==
    LET kept  == SelectSeq(C6_Normalized(T), C6_AlnumOrSpace)
        under == [k \in 1..Len(kept) |-> IF kept[k] = " " THEN "_" ELSE kept[k]]
    IN  IF Len(under) <= 50 THEN under ELSE SubSeq(under, 1, 50)

\* C6: the path /speak resolves for a text T is AUDIO_CACHE_DIR/s.wav when the
\* sanitized name s of T has at least 2 characters, and otherwise
\* AUDIO_CACHE_DIR/h.wav with h the first 12 hex characters of the MD5 of the
\* lowercased, trimmed T; it is a function of T alone (the same whatever the
\* model, the device and the cache hold, and whichever thread resolves it).
C6_PathFormula ==
    \A t \in Threads :
        pc[t] = "exists" =>
            LET T == request[t].text
                s == C6_Sanitized(T)
            IN  /\ cache_path[t].dir = "AUDIO_CACHE_DIR"
                /\ cache_path[t].ext = "wav"
                /\ cache_path[t].stem =
                       IF Len(s) >= 2
                       THEN [digest |-> FALSE, of |-> s, len |-> Len(s)]
                       ELSE [digest |-> TRUE, of |-> C6_Normalized(T), len |-> 12]

\* a text that is not yet lowercased and trimmed, and too short once sanitized,
\* got a hashed name
C6_Witness ==
    \E t \in Threads :
        /\ pc[t] = "exists"
        /\ cache_path[t].stem.digest
        /\ cache_path[t].stem.of # request[t].text
        /\ cache_path[t].stem.of # <<>>

(***************************************************************************)
(* C1, C2, C3: POST /speak.                                                *)
(***************************************************************************)
\* the request went the cache-miss way: it called load_model
Missed(t) == calls[t] # <<>>

\* C1: a /speak for a non-empty text T that finds a file at
\* get_audio_cache_path(T) when it checks goes the cache-hit way, and the step
\* that answers it returns 200 with what the file at that path holds; on that way
\* the request calls neither load_model nor generate and writes nothing to the
\* cache (model, device and cache are as they were at each of its steps).
C1_CacheHit ==
    [][\A t \in Threads :
        LET path == get_audio_cache_path(request[t].text) IN
        /\ (pc[t] = "exists" /\ path \in DOMAIN cache /\ Stepped(t)) =>
               /\ pc'[t] = "cache_hit"
               /\ calls'[t] = <<>>
               /\ UNCHANGED <<model, device, cache>>
        /\ (pc[t] = "cache_hit" /\ Stepped(t)) =>
               /\ pc'[t] = "done"
               /\ resp'[t] = [status |-> 200, body |-> [audio |-> cache[path]]]
               /\ calls'[t] = <<>>
               /\ UNCHANGED <<model, device, cache>>
      ]_vars

\* a cache hit was answered while no model was ever loaded
C1_Witness ==
    \E t \in Threads :
        /\ SpeakDone(t) /\ resp[t].status = 200 /\ ~Missed(t)
        /\ model = None /\ instances = {}

\* C2 (requests served one at a time): a /speak for T that missed the cache and
\* was answered 200 called generate exactly once, left a complete file at
\* get_audio_cache_path(T) that holds the audio it generated, and returned that
\* file's content; a /speak for the same T after it is never on the cache-miss way,
\* and one answered 200 is a cache hit with the same content.
C2_CacheMiss ==
    \A r \in Threads :
        (SpeakDone(r) /\ resp[r].status = 200 /\ Missed(r)) =>
            LET T    == request[r].text
                path == get_audio_cache_path(T)
            IN  /\ Count(calls[r], "generate") = 1
                /\ path \in DOMAIN cache
                /\ cache[path] = [state |-> "complete", audio |-> wav[r]]
                /\ wav[r].text = T
                /\ resp[r].body.audio = cache[path]
                /\ \A f \in Threads \ {r} :
                       request[f] = request[r] =>
                           /\ pc[f] \notin {"load_model", "get_device", "from_pretrained",
                                            "generate", "flatten", "save", "saving",
                                            "cached"}
                           /\ (pc[f] = "done" /\ resp[f].status = 200) =>
                                  ~Missed(f) /\ resp[f] = resp[r]

\* a miss answered 200 and, after it, a hit for the same text answered 200
C2_Witness ==
    \E r, f \in Threads :
        /\ SpeakDone(r) /\ resp[r].status = 200 /\ Missed(r)
        /\ SpeakDone(f) /\ resp[f].status = 200 /\ ~Missed(f)
        /\ request[f] = request[r]

\* C3: a /speak whose text is the empty string is answered 400 "No text provided"
\* in the step that receives it, whatever the state of the service, and that step
\* leaves the audio cache, the model and the device as they were and calls nothing.
C3_EmptyText ==
    [][\A t \in Threads :
        (pc[t] = "idle" /\ request'[t] = SpeakText(<<>>)) =>
            /\ pc'[t] = "done"
            /\ resp'[t] = [status |-> 400, body |-> [error |-> "No text provided"]]
            /\ calls'[t] = <<>>
            /\ UNCHANGED <<model, device, cache>>
      ]_vars

\* the empty text was answered 400 with the model loaded and a file in the cache
C3_Witness ==
    \E t \in Threads :
        /\ pc[t] = "done" /\ request[t] = SpeakText(<<>>)
        /\ resp[t].status = 400
        /\ model # None /\ cache # <<>>

(***************************************************************************)
(* C4, C5.                                                                 *)
(***************************************************************************)
\* the request carries no text: no JSON body, a JSON body that is no object, an
\* object without a text key, or a null text
TextMissing(rq) == rq.json # "object" \/ rq.key # "str"

\* C4: every /speak whose text is missing (no JSON body, a JSON body that is not
\* an object, an object without a text key, a null text) is answered 400.
C4_MissingText400 ==
    \A t \in Threads :
        (SpeakDone(t) /\ TextMissing(request[t])) => resp[t].status = 400

\* a 200 of /preload, or of a /speak that went the cache-miss way
LoadedOk(t) ==
    /\ pc[t] = "done" /\ resp[t].status = 200
    /\ \/ request[t].route = "/preload"
       \/ request[t].route = "/speak" /\ Missed(t)

\* C5 as stated: model is None before any /speak or /preload call (and without
\* the startup preload), and non-None in every state in which a /speak or a
\* /preload has returned 200, cache hit or miss.
C5_LoadedAfterAny200 ==
    /\ (~called /\ ~argv_preload) => model = None
    /\ \A t \in Threads :
           (pc[t] = "done" /\ resp[t].status = 200
                /\ request[t].route \in {"/speak", "/preload"}) => model # None

\* C5 amended: /health reports model_loaded as `model is not None`, which is
\* false before any /speak or /preload call of a process started without
\* --preload, and true from the first 200 of a /preload or of a /speak cache miss
\* on (model, once set, is never None again).
C5_LoadedAfterMiss200 ==
    [][/\ (~called' /\ ~argv_preload') => model' = None
       /\ (\E t \in Threads : LoadedOk(t))' => model' # None
       /\ model # None => model' # None
       /\ \A t \in Threads :
              (pc[t] = "idle" /\ request'[t].route = "/health") =>
                  resp'[t].body.model_loaded = (model' # None)
      ]_vars

\* /health reported model_loaded: true while a /speak cache miss holds its 200
C5_Witness ==
    \E t, u \in Threads :
        /\ LoadedOk(t) /\ request[t].route = "/speak"
        /\ pc[u] = "done" /\ request[u].route = "/health"
        /\ resp[u].body.model_loaded

(***************************************************************************)
(* C7, C8, C9, C10.                                                        *)
(***************************************************************************)
PreloadOk == [status |-> 200, body |-> [status |-> "ok", device |-> get_device]]

\* C7: no step of a /preload changes the audio cache.  A /preload whose load
\* succeeds returns 200 with status ok and the active device and leaves model
\* non-None; a /preload that finds the model loaded returns that same response
\* without instantiating anything; one whose load raises returns 500 with the
\* error and leaves model as it was (None, unless another request has loaded it).
C7_Preload ==
    [][\A t \in Threads :
        /\ (pc[t] = "idle" /\ request'[t].route = "/preload") =>
               UNCHANGED <<model, device, cache>>
        /\ (request[t].route = "/preload" /\ Stepped(t)) =>
               /\ cache' = cache
               /\ pc[t] = "load_model" /\ model # None =>
                      /\ pc'[t] = "preload_return"
                      /\ "from_pretrained" \notin {calls'[t][k] : k \in 1..Len(calls'[t])}
                      /\ UNCHANGED <<model, device, instances>>
               /\ pc[t] = "from_pretrained" /\ pc'[t] # "done" =>
                      /\ pc'[t] = "preload_return"
                      /\ model' # None
               /\ pc[t] = "from_pretrained" /\ pc'[t] = "done" =>
                      /\ resp'[t] = [status |-> 500, body |-> [error |-> "load failed"]]
                      /\ model' = model
                      /\ instances = {} => model' = None
               /\ pc[t] = "preload_return" =>
                      /\ resp'[t] = PreloadOk
                      /\ model # None /\ device = get_device
                      /\ UNCHANGED <<model, device, instances>>
      ]_vars

\* two /preload answered 200 with one response, the second without instantiating
C7_Witness ==
    \E t, u \in Threads :
        /\ request[t].route = "/preload" /\ pc[t] = "done"
        /\ request[u].route = "/preload" /\ pc[u] = "done"
        /\ resp[t] = PreloadOk /\ resp[u] = PreloadOk
        /\ calls[t] = <<"load_model", "from_pretrained">>
        /\ calls[u] = <<"load_model">>
        /\ Cardinality(instances) = 1

\* C8: every /shutdown is answered with its 200 before the process exits: once
\* the process has exited, the thread of a /shutdown has delivered the response.
C8_ShutdownAnswered ==
    \A t \in Threads :
        (request[t].route = "/shutdown" /\ alive = "exited") => pc[t] = "answered"

\* C9: /health can be served whenever a thread is free, returns 200 in one step
\* with model_loaded and the device (the detected one when device is unset), and
\* leaves model, device and the audio cache as they were.
C9_HealthReadOnly ==
    [][\A t \in Threads :
        /\ Serving(t) => ENABLED Health(t)
        /\ (pc[t] = "idle" /\ request'[t].route = "/health") =>
               /\ pc'[t] = "done"
               /\ resp'[t].status = 200
               /\ resp'[t].body.model_loaded = (model # None)
               /\ resp'[t].body.device = get_device
               /\ UNCHANGED <<model, device, cache>>
      ]_vars

\* /health answered 200 with a device while the global device was still unset
C9_Witness ==
    \E t \in Threads :
        /\ pc[t] = "done" /\ request[t].route = "/health"
        /\ resp[t].status = 200
        /\ device = None /\ resp[t].body.device # None

\* C10: over every interleaving the model is instantiated at most once, and the
\* global model, once non-None, is that one instance.
C10_Singleton ==
    /\ Cardinality(instances) <= 1
    /\ model # None => instances = {model}

(***************************************************************************)
(* C11, C12, C13: the cache file under concurrent requests.                *)
(***************************************************************************)
\* C11: every 200 response of /speak, under any interleaving of a writing request
\* with readers of the same path or with a second writer, carries the complete
\* audio of exactly one synthesis, never a partially written file.
C11_NoPartialResponse ==
    \A t \in Threads :
        (SpeakDone(t) /\ resp[t].status = 200) =>
            resp[t].body.audio.state = "complete"

\* C12: once a file exists at a cache path, no later step of any request
\* overwrites, truncates or removes it: the set of cache paths only grows and a
\* file that has been written stays as it is.
C12_NeverMutated ==
    [][\A p \in DOMAIN cache :
          /\ p \in DOMAIN cache'
          /\ cache[p].state = "complete" => cache'[p] = cache[p]
      ]_vars

\* the request was a cache miss whose write to the cache has finished
Wrote(t) ==
    /\ request[t].route = "/speak" /\ Missed(t)
    /\ \/ pc[t] = "cached"
       \/ pc[t] = "done" /\ resp[t].status = 200

\* C13: when two /speak for one unseen text both missed the cache, both generated
\* and both wrote the same path, the file left at that path after both writes have
\* finished is the complete output of one of them (the one that finished last).
C13_LastWriteWins ==
    \A t, u \in Threads :
        (t # u /\ Wrote(t) /\ Wrote(u) /\ cache_path[t] = cache_path[u]) =>
            /\ cache[cache_path[t]].state = "complete"
            /\ cache[cache_path[t]].audio \in {wav[t], wav[u]}

(***************************************************************************)
(* C14: cache aliasing.                                                    *)
(***************************************************************************)
\* two distinct texts with one sanitized name of at least 2 characters: they
\* differ only in case, punctuation, surrounding whitespace, or past the cut
Aliased(T1, T2) ==
    /\ T1 # T2
    /\ Len(C6_Sanitized(T1)) >= 2
    /\ C6_Sanitized(T1) = C6_Sanitized(T2)

\* C14 (requests served one at a time): once a /speak for T1 has returned 200, a
\* /speak for an aliased text T2 is never on the cache-miss way, so it calls
\* neither load_model nor generate, and the 200 it returns is the 200 of T1; when
\* T1 was synthesized by its request, T2 gets that audio, made from T1.
C14_Aliasing ==
    \A r, f \in Threads :
        (/\ SpeakDone(r) /\ resp[r].status = 200
         /\ request[f].route = "/speak"
         /\ Aliased(request[r].text, request[f].text)) =>
            /\ pc[f] \notin {"load_model", "get_device", "from_pretrained", "generate",
                             "flatten", "save", "saving", "cached"}
            /\ (pc[f] = "done" /\ resp[f].status = 200) =>
                   /\ resp[f] = resp[r]
                   /\ ~(Missed(r) /\ Missed(f))
                   /\ Missed(r) =>
                          /\ resp[f].body.audio = [state |-> "complete", audio |-> wav[r]]
                          /\ wav[r].text = request[r].text
                          /\ wav[r].text # request[f].text

\* T1 was synthesized and answered 200, and the aliased T2 was then answered 200
\* from the cache with the audio made from T1
C14_Witness ==
    \E r, f \in Threads :
        /\ SpeakDone(r) /\ resp[r].status = 200 /\ Missed(r)
        /\ SpeakDone(f) /\ resp[f].status = 200 /\ ~Missed(f)
        /\ Aliased(request[r].text, request[f].text)
        /\ resp[f].body.audio.audio.text = request[r].text

(***************************************************************************)
(* C15: a failing synthesis.                                               *)
(***************************************************************************)
\* a /speak cache miss that was answered 500 because load_model or generate raised
SynthesisFailed(t) ==
    /\ SpeakDone(t) /\ Missed(t)
    /\ resp[t].status = 500
    /\ resp[t].body.error \in {"load failed", "generate failed"}

\* C15 (requests served one at a time): the step of a /speak cache miss in which
\* load_model or tts.generate raises answers 500 with the error, changes neither
\* the cache nor the model, and leaves no file at the resolved path; model is None
\* when it was the load that failed; the request called load_model,
\* from_pretrained and generate at most once each and never saved.  The next
\* /speak for the same text (the path is still without a file when it checks) goes
\* the cache-miss way again, and when answered 200 it has called load_model and
\* generate itself.
C15_SynthesisFailure ==
    [][\A r \in Threads :
        /\ (/\ request[r].route = "/speak"
            /\ pc[r] \in {"from_pretrained", "generate"} /\ pc'[r] = "done") =>
               /\ resp'[r].status = 500
               /\ resp'[r].body.error =
                      (IF pc[r] = "generate" THEN "generate failed" ELSE "load failed")
               /\ cache' = cache
               /\ cache_path[r] \notin DOMAIN cache'
               /\ model' = model
               /\ pc[r] = "from_pretrained" => model' = None
               /\ \A c \in {"load_model", "from_pretrained", "generate"} :
                      Count(calls'[r], c) <= 1
               /\ Count(calls'[r], "save") = 0
        /\ \A f \in Threads \ {r} :
               (SynthesisFailed(r) /\ request[f] = request[r]) =>
                   /\ (/\ pc[f] = "exists" /\ Stepped(f)
                       /\ cache_path[r] \notin DOMAIN cache) =>
                          pc'[f] = "load_model" /\ calls'[f] = <<>>
                   /\ (pc'[f] = "done" /\ resp'[f].status = 200 /\ Missed(f)) =>
                          /\ Count(calls'[f], "load_model") = 1
                          /\ Count(calls'[f], "generate") = 1
      ]_vars

\* the load failed and left model None, and the next /speak for the same text
\* missed the cache again, loaded, synthesized and was answered 200
C15_Witness ==
    \E r, f \in Threads :
        /\ SynthesisFailed(r) /\ resp[r].body.error = "load failed"
        /\ request[f] = request[r]
        /\ pc[f] = "done" /\ resp[f].status = 200
        /\ calls[f] = <<"load_model", "from_pretrained", "generate", "save">>

(***************************************************************************)
(* C16: the eager preload of __main__.                                     *)
(***************************************************************************)
\* C16: in a process started with --preload, a load_model that raises ends the
\* process while it is still starting: app.run is never reached, no request is
\* ever received or answered, and nothing happens after the exit.  When the load
\* succeeds the model is loaded in every state in which the server runs, so every
\* /health, the first one included, reports model_loaded: true.
C16_EagerPreload ==
    [][/\ pc[Main] # "raised"
       /\ (pc[Main] = "from_pretrained" /\ model' = None /\ pc'[Main] # pc[Main]) =>
              pc'[Main] = "raised"
       /\ pc'[Main] = "raised" =>
              /\ argv_preload /\ alive = "starting" /\ alive' = "exited"
              /\ model' = None
              /\ ~called'
              /\ \A t \in Threads :
                     pc'[t] = "idle" /\ request'[t] = NoRequest /\ resp'[t] = NoResp
       /\ (argv_preload /\ alive' \in {"serving", "stopping"}) => model' # None
       /\ \A t \in Threads :
              (argv_preload /\ pc[t] = "idle" /\ request'[t].route = "/health") =>
                  resp'[t].body.model_loaded
      ]_vars

\* the eager load raised: the process has exited without ever serving
C16_Witness ==
    /\ argv_preload
    /\ pc[Main] = "raised" /\ alive = "exited"
    /\ model = None /\ device # None

(***************************************************************************)
(* C17: model and device.                                                  *)
(***************************************************************************)
\* C17: in every state model non-None implies device non-None; device changes
\* only in load_model's device = get_device(); the step in which a load fails
\* leaves device set and model as it was (None, unless another request has loaded
\* it); and /health reports the global device once it is set, together with
\* model_loaded: false while model is None.
C17_DeviceCoherence ==
    [][/\ model' # None => device' # None
       /\ device' # device =>
              /\ device' = get_device
              /\ \E t \in Procs : pc[t] = "get_device" /\ pc'[t] = "from_pretrained"
       /\ \A t \in Procs :
              (pc[t] = "from_pretrained" /\ pc'[t] \in {"done", "raised"}) =>
                  /\ device' # None
                  /\ model' = model
                  /\ instances = {} => model' = None
       /\ \A t \in Threads :
              (pc[t] = "idle" /\ request'[t].route = "/health" /\ device # None) =>
                  /\ resp'[t].body.device = device
                  /\ resp'[t].body.model_loaded = (model # None)
      ]_vars

\* a load failed, and /health reported the device with model_loaded: false
C17_Witness ==
    \E t, u \in Threads :
        /\ pc[t] = "done" /\ resp[t].status = 500
        /\ resp[t].body.error = "load failed"
        /\ pc[u] = "done" /\ request[u].route = "/health"
        /\ model = None /\ device # None
        /\ resp[u].body.device = device /\ ~resp[u].body.model_loaded

(***************************************************************************)
(* C18: every request completes.                                           *)
(***************************************************************************)
\* the flatten loop of speak turns without changing wav: it never ends
Spinning(t) ==
    /\ pc[t] = "flatten"
    /\ dim(wav[t]) > 2 /\ squeeze(wav[t]) = wav[t]

\* C18 (what it needs of every state): no /speak, /preload or /health request is
\* ever in a state from which it cannot reach its response, whatever the other
\* requests in flight do: it is never ended unanswered by the process exiting
\* under it, and it is never in a loop that no step leaves.
C18_EveryRequestCompletes ==
    \A t \in Threads :
        request[t].route \in {"/speak", "/preload", "/health"} =>
            /\ pc[t] # "killed"
            /\ ~Spinning(t)

=============================================================================
